---- MODULE Spec2Model ----
(***************************************************************************)
(* Alert evaluation engine of the metric collector (server code of         *)
(* src/demo.sh): the per-alert hysteresis state kept in the alerts table,  *)
(* the sample path (POST /api/metrics -> checkAndTriggerAlerts), the       *)
(* missing-data sweep (checkForMissingData), webhook dispatch              *)
(* (callWebhook) and the webhook configuration the two paths read.         *)
(*                                                                         *)
(* One alert row and the webhooks of its app are modelled.  An evaluation  *)
(* is a sequence of steps separated by the awaits of the code: the reads   *)
(* (findAll), the lastDataTimestamp write plus the decision, one step per  *)
(* webhook call, and the final Alert.update.  Spec runs evaluations one at *)
(* a time; SpecConc lets up to MaxInFlight evaluations interleave.         *)
(* SpecSweep is Spec for an alert with missing-data detection and clock    *)
(* steps around two expected intervals; SpecFaults is Spec with a second   *)
(* alert on the metric and with store operations that reject.  SpecFanout  *)
(* has two webhooks of the app, SpecTenants a second app and a second      *)
(* metric, SpecConfig every alert POST /api/alerts stores and sample       *)
(* values that are not numbers, SpecIngest the handler of POST             *)
(* /api/metrics with rejecting stores, SpecRetention the cleanup timer.    *)
(* SpecAccess puts requireAuth and requirePermission in front of the       *)
(* routes, SpecEvaluator applies checkAlertCondition to every operator,    *)
(* SpecTwins evaluates two alerts that differ in consecutiveRecoveries,    *)
(* SpecOrder gives the samples client timestamps, and SpecLive is the      *)
(* sweep with a fair timer after the last sample.                          *)
(***************************************************************************)
EXTENDS Integers, Sequences, FiniteSets, TLC

(***************************************************************************)
(* Bounds of the model.                                                    *)
(***************************************************************************)
\* Observations started in a run of Spec, and in a run of SpecConc.
MaxObservations == 6
MaxConcObservations == 3
MaxClockAdvances == 1
MaxInFlight == 2
\* Clock advances in a run of SpecConc.
MaxConcClockAdvances == 2
\* Observations started and clock advances in a run of SpecSweep.
MaxSweepObservations == 4
MaxSweepClockAdvances == 3
\* Observations started in a run of SpecFaults.
MaxFaultObservations == 4
\* Observations started in a run of SpecFanout.
MaxFanoutObservations == 3
\* Samples accepted in a run of SpecIngest.
MaxIngestObservations == 3
\* Observations started in a run of SpecConfig.
MaxConfigObservations == 3
\* Samples accepted in a run of SpecTenants.
MaxTenantObservations == 3
\* Samples accepted and half days passed in a run of SpecRetention, and the
\* RETENTION_DAYS of the run.
MaxRetentionSamples == 2
MaxHalfDays == 4
RetentionDays == 1
\* Samples accepted in a run of SpecAccess.
MaxAccessObservations == 2
\* Samples accepted in a run of SpecEvaluator.
MaxEvaluatorObservations == 2
\* Observations started in a run of SpecTwins.
MaxTwinObservations == 3
\* Samples accepted in a run of SpecOrder.
MaxOrderObservations == 3
\* Samples accepted, observations started and periods of the sweep timer
\* passed in a run of SpecLive.
MaxLiveSamples == 2
MaxLiveObservations == 5
MaxLivePeriods == 9
\* Clock value (seconds) when the server starts.
StartClock == 1000

(***************************************************************************)
(* Program constants.                                                      *)
(***************************************************************************)
SweepPeriodSeconds == 10
SecondsPerMinute == 60
MsPerSecond == 1000
MissedIntervalsForGap == 2
\* Period of the cleanup timer, in milliseconds and in seconds.
MsPerDay == 24 * 60 * 60 * 1000
SecondsPerDay == MsPerDay \div MsPerSecond

\* Inputs the environment draws from.
Thresholds == {1, 2, 3}
WebhookIds == {1}
\* Webhooks of SpecFanout (two of the app) and of SpecTenants (one of the
\* app, one of another app).
FanoutWebhookIds == {1, 2}
ForeignWebhookIds == {3}
TenantWebhookIds == WebhookIds \cup ForeignWebhookIds
\* Seconds the clock advances by in one step; none is below the sweep period.
ClockSteps == {60, 60000}
\* Clock steps of SpecSweep, around two expected intervals of 30 seconds.
SweepClockSteps == {30, 35}
\* Request body "timestamp" (milliseconds); 0 stands for an absent field.
BodyTimestamps == {0}
\* Apps (X-App-Id) and metric names of SpecTenants.
Apps == {1, 2}
MetricNames == {"cpu", "mem"}
NULL == 0 - 1

\* A value of a request body or of a STRING column.  isNum: it is a number,
\* or a text that is a number from its first to its last character; lead:
\* it starts with a number, which is all parseFloat reads; v: that number.
Num(n) == [isNum |-> TRUE, lead |-> TRUE, v |-> n]
\* A text with no number at its start ("abc", null, true): parseFloat gives NaN.
NotNumeric == [isNum |-> FALSE, lead |-> FALSE, v |-> 0]
\* A text that starts with the number n and goes on, such as "95%".
LeadingNumber(n) == [isNum |-> FALSE, lead |-> TRUE, v |-> n]
\* An absent field of a request body.
Absent == [isNum |-> FALSE, lead |-> FALSE, v |-> NULL]
\* Sample values of the demo scenario: one above and one below the threshold.
SampleValues == {Num(95), Num(70)}
\* Sample values of SpecConfig: those, and two texts that are not numbers.
AnyValues == SampleValues \cup {LeadingNumber(95), NotNumeric}
\* Results of a delivery: a response with a 2xx status, a response with
\* another status, no response (network error or timeout).
DeliveryOutcomes == {"2xx", "non2xx", "error"}

Procs == 1..MaxInFlight

VARIABLES
    alert,        \* the row of the alerts table
    webhooks,     \* ids of the enabled webhook_configs rows
    clock,        \* Math.floor(Date.now() / 1000)
    lastSweepAt,  \* clock value of the last setInterval tick of the sweep, if still current
    procs,        \* the evaluations in flight
    emitted,      \* states of the notification payloads built so far, in order
    notifiedAt,   \* timestamp of the last payload built
    history,      \* webhook_call_history: number of rows and the last row
    nObs,         \* observations started
    nAdv,         \* clock advances made
    breachRun,    \* evaluated breach observations since the last non-breach one
    recoveryRun,  \* evaluated non-breach observations since the last breach one
    nonBreachSinceEntered, \* evaluated non-breach observations since isAlerting was set
    siblings,     \* rows of the other alerts, after this one
    metrics,      \* timestamp (seconds) of the newest row of the metrics table
    response,     \* the last response of the API
    awsConfig     \* the app has a row in the aws_configs table

vars == <<alert, webhooks, clock, lastSweepAt, procs, emitted, notifiedAt,
          history, nObs, nAdv, breachRun, recoveryRun, nonBreachSinceEntered,
          siblings, metrics, response, awsConfig>>

(***************************************************************************)
(* Pure helpers.                                                           *)
(***************************************************************************)
\* parseFloat of a request value or stored threshold.
parseFloat(x) == IF x.lead THEN Num(x.v) ELSE NotNumeric

isNaN(x) == ~x.isNum

\* checkAlertCondition that reports a breach when a number is missing.
checkAlertCondition_FailClosed(value, condition, threshold) ==
    LET numValue == parseFloat(value)
        numThreshold == parseFloat(threshold)
    IN  IF isNaN(numValue) \/ isNaN(numThreshold) THEN TRUE
        ELSE CASE condition = ">"  -> numValue.v > numThreshold.v
               [] condition = "<"  -> numValue.v < numThreshold.v
               [] condition = ">=" -> numValue.v >= numThreshold.v
               [] condition = "<=" -> numValue.v <= numThreshold.v
               [] condition = "==" -> numValue.v = numThreshold.v
               [] condition = "!=" -> numValue.v # numThreshold.v
               [] OTHER -> FALSE

\* checkAlertCondition with >= read as >.
checkAlertCondition_StrictGe(value, condition, threshold) ==
    LET numValue == parseFloat(value)
        numThreshold == parseFloat(threshold)
    IN  IF isNaN(numValue) \/ isNaN(numThreshold) THEN FALSE
        ELSE CASE condition = ">"  -> numValue.v > numThreshold.v
               [] condition = "<"  -> numValue.v < numThreshold.v
               [] condition = ">=" -> numValue.v > numThreshold.v
               [] condition = "<=" -> numValue.v <= numThreshold.v
               [] condition = "==" -> numValue.v = numThreshold.v
               [] condition = "!=" -> numValue.v # numThreshold.v
               [] OTHER -> FALSE

checkAlertCondition(value, condition, threshold) ==
    LET numValue == parseFloat(value)
        numThreshold == parseFloat(threshold)
    IN  IF isNaN(numValue) \/ isNaN(numThreshold) THEN FALSE
        ELSE CASE condition = ">"  -> numValue.v > numThreshold.v
               [] condition = "<"  -> numValue.v < numThreshold.v
               [] condition = ">=" -> numValue.v >= numThreshold.v
               [] condition = "<=" -> numValue.v <= numThreshold.v
               [] condition = "==" -> numValue.v = numThreshold.v
               [] condition = "!=" -> numValue.v # numThreshold.v
               [] OTHER -> FALSE

\* x || 0 of JavaScript for a nullable BIGINT column.
OrZero(x) == IF x = NULL THEN 0 ELSE x

\* !x of JavaScript for a nullable BIGINT column.
Falsy(x) == x = NULL \/ x = 0

\* Alert.create of POST /api/alerts with the column defaults.
NewAlert(enter, exit, missing) ==
    [ appId |-> 1, metric |-> "cpu", enabled |-> TRUE,
      condition |-> ">", threshold |-> Num(80),
      enterThreshold |-> enter, exitThreshold |-> exit,
      webhookFrequencyMinutes |-> 1,
      treatMissingAsBreach |-> missing,
      expectedIntervalSeconds |-> IF missing THEN 30 ELSE NULL,
      consecutiveBreaches |-> 0, consecutiveRecoveries |-> 0,
      isAlerting |-> FALSE, lastTriggered |-> NULL,
      lastDataTimestamp |-> NULL ]

NoUpdates == [f \in {} |-> 0]

\* Alert.update(updates, {where: {id}}): only the listed columns are written.
ApplyUpdates(row, updates) == updates @@ row

(***************************************************************************)
(* The decision of one observation, as the code computes it from the row   *)
(* it read (the snapshot): the columns to write and the payloads to send.  *)
(***************************************************************************)
\* BreachUpdates with the recovery counter reset on every breach.
BreachUpdates_AlwaysReset(a, newBreachCount) ==
    [consecutiveBreaches |-> newBreachCount, consecutiveRecoveries |-> 0]

\* BreachUpdates with the recovery counter kept on every breach during recovery.
BreachUpdates_KeepInRecovery(a, newBreachCount) ==
    IF a.isAlerting /\ a.consecutiveRecoveries > 0
    THEN [consecutiveBreaches |-> newBreachCount]
    ELSE [consecutiveBreaches |-> newBreachCount, consecutiveRecoveries |-> 0]

\* BreachUpdates with the recovery counter never reset by a breach.
BreachUpdates_NeverReset(a, newBreachCount) ==
    [consecutiveBreaches |-> newBreachCount]

\* BreachUpdates that keeps the recovery counter of an alert that is not alerting.
BreachUpdates_KeepOnEnter(a, newBreachCount) ==
    IF ~a.isAlerting
       \/ (a.consecutiveRecoveries > 0 /\ newBreachCount < a.enterThreshold)
    THEN [consecutiveBreaches |-> newBreachCount]
    ELSE [consecutiveBreaches |-> newBreachCount, consecutiveRecoveries |-> 0]

\* updates of the breach branch, before the enter / repeat checks.
BreachUpdates(a, newBreachCount) ==
    IF a.isAlerting /\ a.consecutiveRecoveries > 0
                    /\ newBreachCount < a.enterThreshold
    THEN [consecutiveBreaches |-> newBreachCount]
    ELSE [consecutiveBreaches |-> newBreachCount, consecutiveRecoveries |-> 0]

\* ShouldEnter with a strict comparison.
ShouldEnter_Strict(a, newBreachCount) ==
    ~a.isAlerting /\ newBreachCount > a.enterThreshold

ShouldEnter(a, newBreachCount) ==
    ~a.isAlerting /\ newBreachCount >= a.enterThreshold

\* ShouldExit with a strict comparison.
ShouldExit_Strict(a, newRecoveryCount) ==
    a.isAlerting /\ newRecoveryCount > a.exitThreshold

\* ShouldExit that does not ask whether the alert is alerting.
ShouldExit_AnyState(a, newRecoveryCount) ==
    newRecoveryCount >= a.exitThreshold

ShouldExit(a, newRecoveryCount) ==
    a.isAlerting /\ newRecoveryCount >= a.exitThreshold

\* SampleRepeatDue with now converted to milliseconds and lastTriggered not.
SampleRepeatDue_NowInMs(a, now) ==
    LET timeSinceLastTrigger == now * MsPerSecond - OrZero(a.lastTriggered)
        webhookFrequencyMs == a.webhookFrequencyMinutes * SecondsPerMinute * MsPerSecond
    IN  timeSinceLastTrigger >= webhookFrequencyMs

\* Repeat test of checkAndTriggerAlerts: now is the sample timestamp.
SampleRepeatDue(a, now) ==
    LET timeSinceLastTrigger == now - OrZero(a.lastTriggered)
        webhookFrequencyMs == a.webhookFrequencyMinutes * SecondsPerMinute * MsPerSecond
    IN  timeSinceLastTrigger >= webhookFrequencyMs

\* Repeat test of checkForMissingData: now is the clock in seconds.
SweepRepeatDue(a, now) ==
    LET timeSinceLastTrigger == now - OrZero(a.lastTriggered)
        webhookFrequencyMs == a.webhookFrequencyMinutes * SecondsPerMinute
    IN  timeSinceLastTrigger >= webhookFrequencyMs

BreachDecision(a, now) ==
    LET newBreachCount == a.consecutiveBreaches + 1
        updates == BreachUpdates(a, newBreachCount)
    IN  IF ShouldEnter(a, newBreachCount)
        THEN [ updates |-> [isAlerting |-> TRUE, lastTriggered |-> now] @@ updates,
               reqs |-> <<"entered">> ]
        ELSE IF a.isAlerting /\ SampleRepeatDue(a, now)
        THEN [ updates |-> [lastTriggered |-> now] @@ updates,
               reqs |-> <<"active">> ]
        ELSE [ updates |-> updates, reqs |-> <<>> ]

\* RecoveryDecision that leaves consecutiveBreaches as it is.
RecoveryDecision_KeepBreaches(a) ==
    LET newRecoveryCount == a.consecutiveRecoveries + 1
        updates == [consecutiveRecoveries |-> newRecoveryCount]
    IN  IF ShouldExit(a, newRecoveryCount)
        THEN [ updates |-> [isAlerting |-> FALSE] @@ updates,
               reqs |-> <<"recovered">> ]
        ELSE [ updates |-> updates, reqs |-> <<>> ]

RecoveryDecision(a) ==
    LET newRecoveryCount == a.consecutiveRecoveries + 1
        updates == [consecutiveBreaches |-> 0,
                    consecutiveRecoveries |-> newRecoveryCount]
    IN  IF ShouldExit(a, newRecoveryCount)
        THEN [ updates |-> [isAlerting |-> FALSE] @@ updates,
               reqs |-> <<"recovered">> ]
        ELSE [ updates |-> updates, reqs |-> <<>> ]

\* Body of the for loop of checkAndTriggerAlerts for one alert.
SampleDecision(a, isBreaching, now) ==
    IF isBreaching THEN BreachDecision(a, now) ELSE RecoveryDecision(a)

\* MissingDataGap that needs more than two missed intervals.
MissingDataGap_MoreThanTwo(a, now) ==
    /\ ~Falsy(a.lastDataTimestamp)
    /\ LET secondsSinceLastData == now - a.lastDataTimestamp
           missedIntervals == secondsSinceLastData \div a.expectedIntervalSeconds
       IN  missedIntervals > MissedIntervalsForGap

\* Gap test of checkForMissingData.
MissingDataGap(a, now) ==
    /\ ~Falsy(a.lastDataTimestamp)
    /\ LET secondsSinceLastData == now - a.lastDataTimestamp
           missedIntervals == secondsSinceLastData \div a.expectedIntervalSeconds
       IN  missedIntervals >= MissedIntervalsForGap

\* SweepDecision that also writes the tick time to lastDataTimestamp.
SweepDecision_TouchesLastData(a, now) ==
    LET newBreachCount == a.consecutiveBreaches + 1
        updates == [consecutiveBreaches |-> newBreachCount,
                    consecutiveRecoveries |-> 0,
                    lastDataTimestamp |-> now]
    IN  IF ShouldEnter(a, newBreachCount)
        THEN [ updates |-> [isAlerting |-> TRUE, lastTriggered |-> now] @@ updates,
               reqs |-> <<"entered">> ]
        ELSE IF a.isAlerting /\ SweepRepeatDue(a, now)
        THEN [ updates |-> [lastTriggered |-> now] @@ updates,
               reqs |-> <<"active">> ]
        ELSE [ updates |-> updates, reqs |-> <<>> ]

\* SweepDecision that counts one breach per missed interval.
SweepDecision_Backfill(a, now) ==
    LET missedIntervals == (now - a.lastDataTimestamp) \div a.expectedIntervalSeconds
        newBreachCount == a.consecutiveBreaches + missedIntervals
        updates == [consecutiveBreaches |-> newBreachCount,
                    consecutiveRecoveries |-> 0]
    IN  IF ShouldEnter(a, newBreachCount)
        THEN [ updates |-> [isAlerting |-> TRUE, lastTriggered |-> now] @@ updates,
               reqs |-> <<"entered">> ]
        ELSE IF a.isAlerting /\ SweepRepeatDue(a, now)
        THEN [ updates |-> [lastTriggered |-> now] @@ updates,
               reqs |-> <<"active">> ]
        ELSE [ updates |-> updates, reqs |-> <<>> ]

\* SweepDecision that counts the breach and never enters alerting.
SweepDecision_CountsOnly(a, now) ==
    [ updates |-> [consecutiveBreaches |-> a.consecutiveBreaches + 1,
                   consecutiveRecoveries |-> 0],
      reqs |-> <<>> ]

\* Body of the for loop of checkForMissingData for one gapped alert.
SweepDecision(a, now) ==
    LET newBreachCount == a.consecutiveBreaches + 1
        updates == [consecutiveBreaches |-> newBreachCount,
                    consecutiveRecoveries |-> 0]
    IN  IF ShouldEnter(a, newBreachCount)
        THEN [ updates |-> [isAlerting |-> TRUE, lastTriggered |-> now] @@ updates,
               reqs |-> <<"entered">> ]
        ELSE IF a.isAlerting /\ SweepRepeatDue(a, now)
        THEN [ updates |-> [lastTriggered |-> now] @@ updates,
               reqs |-> <<"active">> ]
        ELSE [ updates |-> updates, reqs |-> <<>> ]

\* The newest row of the metrics table after Metric.create of a row with
\* timestamp ts.
Newest(newest, ts) == IF newest = NULL \/ ts > newest THEN ts ELSE newest

\* const ts = timestamp ? Math.floor(timestamp / 1000) : Math.floor(Date.now() / 1000)
SampleTimestamp(timestamp, now) ==
    IF timestamp # 0 THEN timestamp \div MsPerSecond ELSE now

(***************************************************************************)
(* State.                                                                  *)
(***************************************************************************)
\* An evaluation slot.  appId, metric, value, ts, isBreaching: the observation;
\* snap: the alert row as read; targets: the webhooks read for it; pending:
\* those still to call; called: the deliveries made, in order.
IdleProc ==
    [ pc |-> "idle", path |-> "none", appId |-> 0, metric |-> "none",
      value |-> Absent, ts |-> 0, isBreaching |-> FALSE,
      snap |-> NewAlert(1, 1, FALSE), targets |-> {}, pending |-> {},
      called |-> <<>>, updates |-> NoUpdates, reqs |-> <<>> ]

NoRow == [webhookId |-> 0, state |-> "none", success |-> FALSE]

\* response.ok of fetch.
ResponseOk(outcome) == outcome = "2xx"

\* HistoryRow that records every response as a success.
HistoryRow_SuccessOnResponse(w, state, outcome) ==
    [webhookId |-> w, state |-> state, success |-> outcome # "error"]

\* The webhook_call_history row callWebhook writes for a delivery: in the
\* try block after a response, in the catch block after a failed fetch.
HistoryRow(w, state, outcome) ==
    IF outcome = "error"
    THEN [webhookId |-> w, state |-> state, success |-> FALSE]
    ELSE [webhookId |-> w, state |-> state, success |-> ResponseOk(outcome)]

\* Matches without the appId of the where clause.
Matches_AnyApp(a, appId, metric) == a.metric = metric /\ a.enabled

\* where: { appId, metric: metricName, enabled: true } of Alert.findAll.
Matches(a, appId, metric) == a.appId = appId /\ a.metric = metric /\ a.enabled

\* The app a webhook_configs row belongs to.
WebhookApp(w) == IF w \in ForeignWebhookIds THEN 2 ELSE 1

\* where: { appId, enabled: true } of WebhookConfig.findAll.
EnabledWebhooks(appId) == {w \in webhooks : WebhookApp(w) = appId}

\* The state at server start apart from the alerts table.
InitRuntime ==
    /\ webhooks = {}
    /\ clock = StartClock
    /\ lastSweepAt = StartClock
    /\ procs = [p \in Procs |-> IdleProc]
    /\ emitted = <<>>
    /\ notifiedAt = NULL
    /\ history = [rows |-> 0, last |-> NoRow]
    /\ nObs = 0
    /\ nAdv = 0
    /\ breachRun = 0
    /\ recoveryRun = 0
    /\ nonBreachSinceEntered = 0
    /\ metrics = NULL
    /\ response = "none"
    /\ awsConfig = FALSE

\* Everything but the other alerts of the metric.
InitRows ==
    /\ alert \in {NewAlert(e, x, m) : e \in Thresholds, x \in Thresholds,
                                      m \in BOOLEAN}
    /\ InitRuntime

\* One alert on the metric.
Init == InitRows /\ siblings = <<>>

AllIdle == \A p \in Procs : procs[p].pc = "idle"

\* The slot a new evaluation takes: the lowest idle one.
FreeSlot(p) ==
    /\ procs[p].pc = "idle"
    /\ \A q \in Procs : q < p => procs[q].pc # "idle"

\* Timestamp of the last payload after building those of reqs at ts.
NotifiedAfter(reqs, ts) == IF reqs = <<>> THEN notifiedAt ELSE ts

(***************************************************************************)
(* Environment: the clock and the webhook configuration endpoints.         *)
(***************************************************************************)
\* Time passes: at least one period of the sweep timer.
AdvanceClockBy(steps, limit) ==
    /\ nAdv < limit
    /\ \E d \in steps : clock' = clock + d
    /\ nAdv' = nAdv + 1
    /\ lastSweepAt' = NULL
    /\ UNCHANGED <<awsConfig, metrics, response, siblings, alert, webhooks, procs, emitted, notifiedAt,
                   history, nObs, breachRun, recoveryRun, nonBreachSinceEntered>>

AdvanceClock == AdvanceClockBy(ClockSteps, MaxClockAdvances)

\* POST /api/webhooks, or PATCH /api/webhooks/:id with enabled: true.
EnableWebhookOf(ids) ==
    /\ \E w \in ids \ webhooks : webhooks' = webhooks \cup {w}
    /\ UNCHANGED <<awsConfig, metrics, response, siblings, alert, clock, lastSweepAt, procs, emitted, notifiedAt,
                   history, nObs, nAdv, breachRun, recoveryRun, nonBreachSinceEntered>>

EnableWebhook == EnableWebhookOf(WebhookIds)

\* PATCH /api/webhooks/:id with enabled: false, or DELETE /api/webhooks/:id.
DisableWebhook ==
    /\ \E w \in webhooks : webhooks' = webhooks \ {w}
    /\ UNCHANGED <<awsConfig, metrics, response, siblings, alert, clock, lastSweepAt, procs, emitted, notifiedAt,
                   history, nObs, nAdv, breachRun, recoveryRun, nonBreachSinceEntered>>

(***************************************************************************)
(* Sample path: POST /api/metrics and checkAndTriggerAlerts.               *)
(***************************************************************************)
\* The handler stores the sample of (appId, metric) and starts
\* checkAndTriggerAlerts, which reads the enabled alerts of the metric and
\* the enabled webhooks of the app and returns when there are none of
\* either.  The loop starts with the first alert read.
PostMetricsFor(p, appId, metric, value, timestamp, limit) ==
    LET ts == SampleTimestamp(timestamp, clock)
        isBreaching == checkAlertCondition(value, alert.condition, alert.threshold)
        mine == Matches(alert, appId, metric)
        others == siblings # <<>> /\ Matches(siblings[1], appId, metric)
        hooks == EnabledWebhooks(appId)
    IN  /\ FreeSlot(p)
        /\ nObs < limit
        /\ nObs' = nObs + 1
        /\ metrics' = Newest(metrics, ts)
        /\ response' = "success"
        /\ IF ~(mine \/ others) \/ hooks = {}
           THEN UNCHANGED procs
           ELSE procs' = [procs EXCEPT ![p] =
                    [ IdleProc EXCEPT !.pc = IF mine THEN "touch" ELSE "sibling",
                                      !.path = "sample",
                                      !.appId = appId, !.metric = metric,
                                      !.value = value, !.ts = ts, !.isBreaching = isBreaching,
                                      !.snap = alert, !.targets = hooks,
                                      !.pending = hooks ]]
        /\ UNCHANGED <<awsConfig, siblings, alert, webhooks, clock, lastSweepAt, emitted, notifiedAt,
                       history, nAdv, breachRun, recoveryRun,
                       nonBreachSinceEntered>>

\* A sample of the alert's app and metric.
PostMetrics(p, value, timestamp, limit) ==
    PostMetricsFor(p, alert.appId, alert.metric, value, timestamp, limit)

\* Alert.update({lastDataTimestamp: now}), then the decision on the row read
\* before, and the payload of the transition if there is one.
TouchAndDecide(p) ==
    LET me == procs[p]
        d == SampleDecision(me.snap, me.isBreaching, me.ts)
    IN  /\ me.pc = "touch"
        /\ alert' = [alert EXCEPT !.lastDataTimestamp = me.ts]
        /\ emitted' = emitted \o d.reqs
        /\ notifiedAt' = NotifiedAfter(d.reqs, me.ts)
        /\ procs' = [procs EXCEPT ![p] =
               [ me EXCEPT !.pc = IF d.reqs = <<>> THEN "persist" ELSE "dispatch",
                           !.pending = IF d.reqs = <<>> THEN {} ELSE me.pending,
                           !.updates = d.updates, !.reqs = d.reqs ]]
        /\ breachRun' = IF me.isBreaching THEN breachRun + 1 ELSE 0
        /\ recoveryRun' = IF me.isBreaching THEN 0 ELSE recoveryRun + 1
        /\ nonBreachSinceEntered' =
               IF me.isBreaching THEN nonBreachSinceEntered
               ELSE nonBreachSinceEntered + 1
        /\ UNCHANGED <<awsConfig, metrics, response, siblings, webhooks, clock, lastSweepAt, history, nObs, nAdv>>

(***************************************************************************)
(* Missing-data sweep: checkForMissingData, started by setInterval.        *)
(***************************************************************************)
\* An alert the sweep reads (enabled, treatMissingAsBreach) and finds gapped.
SweepExamines(a, now) ==
    a.enabled /\ a.treatMissingAsBreach /\ MissingDataGap(a, now)

\* A tick: reads the opted-in alerts and applies the gap test to each in
\* turn; the loop body runs for the first gapped one.
SweepTick(p, limit) ==
    LET mine == SweepExamines(alert, clock)
        others == siblings # <<>> /\ SweepExamines(siblings[1], clock)
    IN  /\ FreeSlot(p)
        /\ lastSweepAt = NULL \/ clock >= lastSweepAt + SweepPeriodSeconds
        /\ lastSweepAt' = clock
        /\ IF (mine \/ others) /\ nObs < limit
           THEN /\ procs' = [procs EXCEPT ![p] =
                      [ IdleProc EXCEPT !.pc = IF mine THEN "sweepwh" ELSE "sibling",
                                        !.path = "sweep",
                                        !.ts = clock, !.isBreaching = TRUE,
                                        !.snap = alert ]]
                /\ nObs' = nObs + 1
           ELSE UNCHANGED <<procs, nObs>>
        /\ UNCHANGED <<awsConfig, metrics, response, siblings, alert, webhooks, clock,
                       emitted, notifiedAt, history, nAdv,
                       breachRun, recoveryRun, nonBreachSinceEntered>>

\* WebhookConfig.findAll for the gapped alert, then the decision.
SweepDecide(p) ==
    LET me == procs[p]
        d == SweepDecision(me.snap, me.ts)
        hooks == EnabledWebhooks(me.snap.appId)
        send == d.reqs # <<>> /\ hooks # {}
    IN  /\ me.pc = "sweepwh"
        /\ emitted' = emitted \o d.reqs
        /\ notifiedAt' = NotifiedAfter(d.reqs, me.ts)
        /\ procs' = [procs EXCEPT ![p] =
               [ me EXCEPT !.pc = IF send THEN "dispatch" ELSE "persist",
                           !.targets = hooks,
                           !.pending = IF send THEN hooks ELSE {},
                           !.updates = d.updates, !.reqs = d.reqs ]]
        /\ breachRun' = breachRun + 1
        /\ recoveryRun' = 0
        /\ UNCHANGED <<awsConfig, metrics, response, siblings, alert, webhooks, clock, lastSweepAt, history, nObs,
                       nAdv, nonBreachSinceEntered>>

(***************************************************************************)
(* Steps both paths share.                                                 *)
(***************************************************************************)
\* Dispatch in which a delivery that fails ends the evaluation.
Dispatch_RaisesFailure(p) ==
    LET me == procs[p]
        w == CHOOSE x \in me.pending : \A y \in me.pending : x <= y
    IN  /\ me.pc = "dispatch"
        /\ \E outcome \in DeliveryOutcomes :
              /\ history' = [ rows |-> history.rows + 1,
                              last |-> HistoryRow(w, me.reqs[1], outcome) ]
              /\ procs' = [procs EXCEPT ![p] =
                     IF ~ResponseOk(outcome) THEN IdleProc
                     ELSE [ me EXCEPT !.pending = me.pending \ {w},
                                      !.called = Append(me.called,
                                          [webhookId |-> w, outcome |-> outcome]),
                                      !.pc = IF me.pending = {w} THEN "persist"
                                             ELSE "dispatch" ]]
        /\ UNCHANGED <<awsConfig, metrics, response, siblings, alert, webhooks, clock,
                       lastSweepAt, emitted, notifiedAt, nObs, nAdv, breachRun,
                       recoveryRun, nonBreachSinceEntered>>

\* Dispatch in which a delivery that fails ends the loop over the webhooks.
Dispatch_StopsAtFailure(p) ==
    LET me == procs[p]
        w == CHOOSE x \in me.pending : \A y \in me.pending : x <= y
    IN  /\ me.pc = "dispatch"
        /\ \E outcome \in DeliveryOutcomes :
              /\ history' = [ rows |-> history.rows + 1,
                              last |-> HistoryRow(w, me.reqs[1], outcome) ]
              /\ procs' = [procs EXCEPT ![p] =
                     [ me EXCEPT !.pending = IF ResponseOk(outcome)
                                             THEN me.pending \ {w} ELSE {},
                                 !.called = Append(me.called,
                                     [webhookId |-> w, outcome |-> outcome]),
                                 !.pc = IF me.pending = {w} \/ ~ResponseOk(outcome)
                                        THEN "persist" ELSE "dispatch" ]]
        /\ UNCHANGED <<awsConfig, metrics, response, siblings, alert, webhooks, clock,
                       lastSweepAt, emitted, notifiedAt, nObs, nAdv, breachRun,
                       recoveryRun, nonBreachSinceEntered>>

\* callWebhook for the next webhook of the loop: the delivery gets a 2xx
\* response, another response or none, and one webhook_call_history row is
\* written.
Dispatch(p) ==
    LET me == procs[p]
        w == CHOOSE x \in me.pending : \A y \in me.pending : x <= y
    IN  /\ me.pc = "dispatch"
        /\ \E outcome \in DeliveryOutcomes :
              /\ history' = [ rows |-> history.rows + 1,
                              last |-> HistoryRow(w, me.reqs[1], outcome) ]
              /\ procs' = [procs EXCEPT ![p] =
                     [ me EXCEPT !.pending = me.pending \ {w},
                                 !.called = Append(me.called,
                                     [webhookId |-> w, outcome |-> outcome]),
                                 !.pc = IF me.pending = {w} THEN "persist"
                                        ELSE "dispatch" ]]
        /\ UNCHANGED <<awsConfig, metrics, response, siblings, alert, webhooks, clock, lastSweepAt, emitted, notifiedAt,
                       nObs, nAdv, breachRun, recoveryRun, nonBreachSinceEntered>>

\* await Alert.update(updates, { where: { id: alert.id } }) ends the loop body;
\* the loop goes on with the next alert it has to evaluate if there is one.
Persist(p) ==
    LET me == procs[p]
        row == ApplyUpdates(alert, me.updates)
        more == /\ siblings # <<>>
                /\ IF me.path = "sample"
                   THEN Matches(siblings[1], me.appId, me.metric)
                   ELSE SweepExamines(siblings[1], me.ts)
    IN  /\ me.pc = "persist"
        /\ alert' = row
        /\ nonBreachSinceEntered' =
               IF ~alert.isAlerting /\ row.isAlerting THEN 0
               ELSE nonBreachSinceEntered
        /\ procs' = [procs EXCEPT ![p] =
               IF more
               THEN [ me EXCEPT !.pc = "sibling", !.targets = {}, !.pending = {},
                                !.called = <<>>,
                                !.updates = NoUpdates, !.reqs = <<>> ]
               ELSE IdleProc]
        /\ UNCHANGED <<awsConfig, metrics, response, siblings, webhooks, clock, lastSweepAt, emitted, notifiedAt,
                       history, nObs, nAdv, breachRun, recoveryRun>>

Step ==
    \E p \in Procs : TouchAndDecide(p) \/ SweepDecide(p) \/ Dispatch(p) \/ Persist(p)

Environment == AdvanceClock \/ EnableWebhook \/ DisableWebhook

\* Observations evaluated one at a time.
SerialPostMetrics ==
    /\ AllIdle
    /\ \E value \in SampleValues, timestamp \in BodyTimestamps :
          PostMetrics(1, value, timestamp, MaxObservations)

SerialSweepTick == AllIdle /\ SweepTick(1, MaxObservations)

Next == SerialPostMetrics \/ SerialSweepTick \/ Step \/ Environment

Spec == Init /\ [][Next]_vars

\* Evaluations started while others are still awaiting.
ConcPostMetrics ==
    \E p \in Procs, value \in SampleValues, timestamp \in BodyTimestamps :
        PostMetrics(p, value, timestamp, MaxConcObservations)

ConcSweepTick == \E p \in Procs : SweepTick(p, MaxConcObservations)

ConcEnvironment ==
    \/ AdvanceClockBy(ClockSteps, MaxConcClockAdvances)
    \/ EnableWebhook
    \/ DisableWebhook

NextConc == ConcPostMetrics \/ ConcSweepTick \/ Step \/ ConcEnvironment

SpecConc == Init /\ [][NextConc]_vars

(***************************************************************************)
(* Runs centred on the sweep: the alert opted in to missing-data           *)
(* detection and the clock moves in steps around two expected intervals.   *)
(***************************************************************************)
InitSweep == Init /\ alert.treatMissingAsBreach

TimedPostMetrics ==
    /\ AllIdle
    /\ \E value \in SampleValues, timestamp \in BodyTimestamps :
          PostMetrics(1, value, timestamp, MaxSweepObservations)

TimedSweepTick == AllIdle /\ SweepTick(1, MaxSweepObservations)

TimedEnvironment ==
    \/ AdvanceClockBy(SweepClockSteps, MaxSweepClockAdvances)
    \/ EnableWebhook
    \/ DisableWebhook

NextSweep == TimedPostMetrics \/ TimedSweepTick \/ Step \/ TimedEnvironment

SpecSweep == InitSweep /\ [][NextSweep]_vars

(***************************************************************************)
(* Runs with faults of the store and a second alert on the same metric.    *)
(***************************************************************************)
\* A second enabled alert of the same metric, created with the same
\* condition, threshold and hysteresis settings; findAll returns it after
\* the first.
InitFaults == InitRows /\ siblings = <<alert>>

\* The loop body for the next alert, taken as one step.  On the sample
\* path: the lastDataTimestamp write, the decision and the final
\* Alert.update; the sample breaches its condition exactly when it breaches
\* the first alert's.  On the sweep: the decision and the Alert.update.
EvaluateSibling(p) ==
    LET me == procs[p]
        row == siblings[1]
        d == IF me.path = "sample" THEN SampleDecision(row, me.isBreaching, me.ts)
             ELSE SweepDecision(row, me.ts)
        touched == IF me.path = "sample" THEN [row EXCEPT !.lastDataTimestamp = me.ts]
                   ELSE row
    IN  /\ me.pc = "sibling"
        /\ siblings' = <<ApplyUpdates(touched, d.updates)>>
        /\ procs' = [procs EXCEPT ![p] = IdleProc]
        /\ UNCHANGED <<awsConfig, metrics, response, alert, webhooks, clock, lastSweepAt, emitted, notifiedAt,
                       history, nObs, nAdv, breachRun, recoveryRun,
                       nonBreachSinceEntered>>

\* UpdateRejects whose exception reaches the handler of POST /api/metrics.
UpdateRejects_Surfaces(p) ==
    /\ procs[p].pc \in {"touch", "persist"}
    /\ procs' = [procs EXCEPT ![p] = IdleProc]
    /\ response' = "error"
    /\ UNCHANGED <<awsConfig, metrics, alert, webhooks, clock, lastSweepAt, emitted,
                   notifiedAt, history, nObs, nAdv, breachRun, recoveryRun,
                   nonBreachSinceEntered, siblings>>

\* Alert.update rejects: the exception leaves the for loop, the catch of the
\* function logs it and the function returns.  Nothing is written.
UpdateRejects(p) ==
    /\ procs[p].pc \in {"touch", "persist"}
    /\ procs' = [procs EXCEPT ![p] = IdleProc]
    /\ UNCHANGED <<awsConfig, metrics, response, alert, webhooks, clock, lastSweepAt, emitted, notifiedAt,
                   history, nObs, nAdv, breachRun, recoveryRun,
                   nonBreachSinceEntered, siblings>>

\* callWebhook while the history store rejects: WebhookCallHistory.create
\* rejects in the catch block, entered after a failed fetch or after the
\* create of the try block has rejected; the exception leaves callWebhook
\* and the loops of the caller and reaches the catch of the caller.
AuditFails(p) ==
    /\ procs[p].pc = "dispatch"
    /\ procs' = [procs EXCEPT ![p] = IdleProc]
    /\ UNCHANGED <<awsConfig, metrics, response, alert, webhooks, clock, lastSweepAt, emitted, notifiedAt,
                   history, nObs, nAdv, breachRun, recoveryRun,
                   nonBreachSinceEntered, siblings>>

Fault == \E p \in Procs : UpdateRejects(p) \/ AuditFails(p)

FaultyPostMetrics ==
    /\ AllIdle
    /\ \E value \in SampleValues, timestamp \in BodyTimestamps :
          PostMetrics(1, value, timestamp, MaxFaultObservations)

FaultySweepTick == AllIdle /\ SweepTick(1, MaxFaultObservations)

NextFaults ==
    \/ FaultyPostMetrics
    \/ FaultySweepTick
    \/ Step
    \/ \E p \in Procs : EvaluateSibling(p)
    \/ Fault
    \/ Environment

SpecFaults == InitFaults /\ [][NextFaults]_vars

(***************************************************************************)
(* Runs with two webhooks of the app.                                      *)
(***************************************************************************)
FanoutPostMetrics ==
    /\ AllIdle
    /\ \E value \in SampleValues, timestamp \in BodyTimestamps :
          PostMetrics(1, value, timestamp, MaxFanoutObservations)

FanoutSweepTick == AllIdle /\ SweepTick(1, MaxFanoutObservations)

FanoutEnvironment ==
    \/ AdvanceClock
    \/ EnableWebhookOf(FanoutWebhookIds)
    \/ DisableWebhook

NextFanout == FanoutPostMetrics \/ FanoutSweepTick \/ Step \/ FanoutEnvironment

SpecFanout == Init /\ [][NextFanout]_vars

(***************************************************************************)
(* Runs centred on POST /api/metrics: the metrics store or the alert store *)
(* may reject, and no time passes.                                         *)
(***************************************************************************)
\* POST /api/metrics whose Metric.create rejects: the catch of the handler
\* answers 500 and checkAndTriggerAlerts is not called.
MetricCreateRejects ==
    /\ AllIdle
    /\ nObs < MaxIngestObservations
    /\ response' = "error"
    /\ UNCHANGED <<awsConfig, metrics, alert, webhooks, clock, lastSweepAt, procs, emitted,
                   notifiedAt, history, nObs, nAdv, breachRun, recoveryRun,
                   nonBreachSinceEntered, siblings>>

IngestPostMetrics ==
    /\ AllIdle
    /\ \E value \in SampleValues, timestamp \in BodyTimestamps :
          PostMetrics(1, value, timestamp, MaxIngestObservations)

\* The steps of checkAndTriggerAlerts.
SampleStep == \E p \in Procs : TouchAndDecide(p) \/ Dispatch(p) \/ Persist(p)

NextIngest ==
    \/ IngestPostMetrics
    \/ MetricCreateRejects
    \/ SampleStep
    \/ Fault
    \/ EnableWebhook
    \/ DisableWebhook

SpecIngest == Init /\ [][NextIngest]_vars

(***************************************************************************)
(* Runs whose alert is any alert POST /api/alerts stores, with sample      *)
(* values that need not be numbers.                                        *)
(***************************************************************************)
Conditions == {">", "<", ">=", "<=", "==", "!="}

\* Request bodies of POST /api/alerts (metric given); the client sends
\* expectedIntervalSeconds only together with treatMissingAsBreach.
AlertBodies ==
    { b \in [ condition : {">", "~"},
              threshold : {Num(80), NotNumeric, Absent},
              enterThreshold : Thresholds \cup {0},
              exitThreshold : Thresholds \cup {0},
              webhookFrequencyMinutes : {0, 1},
              treatMissingAsBreach : BOOLEAN,
              expectedIntervalSeconds : {NULL, 30} ] :
        b.treatMissingAsBreach \/ b.expectedIntervalSeconds = NULL }

\* !threshold of JavaScript: the field is absent or the number 0.
FalsyValue(x) == x = Absent \/ x = Num(0)

\* The checks of POST /api/alerts, in the order of the handler.
PostAlertsAccepts(b) ==
    /\ ~FalsyValue(b.threshold)
    /\ b.condition \in Conditions
    /\ ~(b.enterThreshold < 1 \/ b.exitThreshold < 1)
    /\ ~(b.webhookFrequencyMinutes < 1)
    /\ ~(b.treatMissingAsBreach /\ Falsy(b.expectedIntervalSeconds))

\* Alert.create of POST /api/alerts: the fields of the body, threshold as
\* String(threshold), the other columns at their defaults.
AlertCreate(b) ==
    [ NewAlert(b.enterThreshold, b.exitThreshold, b.treatMissingAsBreach)
        EXCEPT !.condition = b.condition, !.threshold = b.threshold,
               !.webhookFrequencyMinutes = b.webhookFrequencyMinutes,
               !.expectedIntervalSeconds = b.expectedIntervalSeconds ]

InitConfig ==
    /\ alert \in {AlertCreate(b) : b \in {c \in AlertBodies : PostAlertsAccepts(c)}}
    /\ InitRuntime
    /\ siblings = <<>>

ConfigPostMetrics ==
    /\ AllIdle
    /\ \E value \in AnyValues, timestamp \in BodyTimestamps :
          PostMetrics(1, value, timestamp, MaxConfigObservations)

ConfigSweepTick == AllIdle /\ SweepTick(1, MaxConfigObservations)

NextConfig == ConfigPostMetrics \/ ConfigSweepTick \/ Step \/ Environment

SpecConfig == InitConfig /\ [][NextConfig]_vars

(***************************************************************************)
(* Runs with a second alert that belongs to another app or to another      *)
(* metric, a webhook per app, and samples of every app and metric.  The    *)
(* alerts have no missing-data detection, so the sweep reads none.         *)
(***************************************************************************)
InitTenants ==
    /\ InitRows
    /\ ~alert.treatMissingAsBreach
    /\ siblings \in { <<[alert EXCEPT !.appId = 2]>>,
                      <<[alert EXCEPT !.metric = "mem"]>> }

TenantPostMetrics ==
    /\ AllIdle
    /\ \E appId \in Apps, metric \in MetricNames, value \in SampleValues,
          timestamp \in BodyTimestamps :
          PostMetricsFor(1, appId, metric, value, timestamp, MaxTenantObservations)

TenantEnvironment ==
    \/ AdvanceClock
    \/ EnableWebhookOf(TenantWebhookIds)
    \/ DisableWebhook

NextTenants ==
    \/ TenantPostMetrics
    \/ SampleStep
    \/ \E p \in Procs : EvaluateSibling(p)
    \/ TenantEnvironment

SpecTenants == InitTenants /\ [][NextTenants]_vars

(***************************************************************************)
(* GET /api/alert-states.                                                  *)
(***************************************************************************)
\* DisplayState that shows an alerting alert without recoveries as recovering.
DisplayState_RecoveringFromZero(a) ==
    IF a.isAlerting
    THEN IF a.consecutiveRecoveries >= 0
            /\ a.consecutiveRecoveries < a.exitThreshold
         THEN "recovering" ELSE "alerting"
    ELSE IF a.consecutiveBreaches > 0
            /\ a.consecutiveBreaches < a.enterThreshold
         THEN "breaching" ELSE "normal"

\* The state the handler derives for an alert row.
DisplayState(a) ==
    IF a.isAlerting
    THEN IF a.consecutiveRecoveries > 0
            /\ a.consecutiveRecoveries < a.exitThreshold
         THEN "recovering" ELSE "alerting"
    ELSE IF a.consecutiveBreaches > 0
            /\ a.consecutiveBreaches < a.enterThreshold
         THEN "breaching" ELSE "normal"

(***************************************************************************)
(* Runs over days: samples are stored and the cleanup timer fires once a   *)
(* day.  No webhook is configured, so no sample is evaluated.              *)
(***************************************************************************)
\* const cutoff = Date.now() - (retentionDays * 24 * 60 * 60 * 1000)
RetentionCutoff(nowMs) == nowMs - RetentionDays * MsPerDay

\* Metric.destroy({where: {timestamp: {[Op.lt]: cutoff}}}) on the newest
\* row: when it is deleted, so is every older row and the table is empty.
cleanupOldData(newest, nowMs) ==
    IF newest # NULL /\ newest < RetentionCutoff(nowMs) THEN NULL ELSE newest

\* The cleanup timer fires when the clock reaches t.
CleanupDue(t) == t > StartClock /\ (t - StartClock) % SecondsPerDay = 0

\* Half a day passes; at the end of every day setInterval runs cleanupOldData.
HalfDayPasses ==
    LET now == clock + SecondsPerDay \div 2
    IN  /\ AllIdle
        /\ nAdv < MaxHalfDays
        /\ nAdv' = nAdv + 1
        /\ clock' = now
        /\ lastSweepAt' = NULL
        /\ metrics' = IF CleanupDue(now)
                      THEN cleanupOldData(metrics, now * MsPerSecond)
                      ELSE metrics
        /\ UNCHANGED <<awsConfig, response, siblings, alert, webhooks, procs, emitted,
                       notifiedAt, history, nObs, breachRun, recoveryRun,
                       nonBreachSinceEntered>>

RetentionPostMetrics ==
    /\ AllIdle
    /\ \E value \in SampleValues, timestamp \in BodyTimestamps :
          PostMetrics(1, value, timestamp, MaxRetentionSamples)

NextRetention == RetentionPostMetrics \/ HalfDayPasses

SpecRetention == Init /\ [][NextRetention]_vars

(***************************************************************************)
(* Runs of the API with keys of every role: requireAuth, requirePermission *)
(* and the handlers of the routes that read or change stored data.         *)
(***************************************************************************)
Roles == {"r", "w", "rw"}

\* req.auth as requireAuth sets it: for the master key, and for an enabled
\* key of the api_keys table with the role of its row.
MasterAuth == [isMaster |-> TRUE, role |-> "rw"]
KeyAuth(role) == [isMaster |-> FALSE, role |-> role]
Auths == {MasterAuth} \cup {KeyAuth(role) : role \in Roles}

\* The middleware requirePermission(permission) lets the request pass.
requirePermission(permission, auth) ==
    \/ auth.isMaster
    \/ permission = "r" /\ auth.role \in {"r", "rw"}
    \/ permission = "w" /\ auth.role \in {"w", "rw"}

\* Routes that change stored data, and one that reads it.
MutatingRoutes ==
    { "POST /api/metrics", "DELETE /api/metrics/:name", "POST /api/webhooks",
      "DELETE /api/webhooks/:id", "POST /api/aws/config",
      "DELETE /api/aws/config" }
Routes == MutatingRoutes \cup {"GET /api/metrics"}

\* The permission the route is registered with; "none" when it is
\* registered with requireAuth alone.
RoutePermission(route) ==
    CASE route \in {"POST /api/aws/config", "DELETE /api/aws/config"} -> "none"
      [] route = "GET /api/metrics" -> "r"
      [] OTHER -> "w"

\* The request reaches the handler of the route.
Passes(route, auth) ==
    \/ RoutePermission(route) = "none"
    \/ requirePermission(RoutePermission(route), auth)

\* res.status(403) of requirePermission: the handler does not run.
Forbidden ==
    /\ response' = "forbidden"
    /\ UNCHANGED <<awsConfig, metrics, alert, webhooks, clock, lastSweepAt,
                   procs, emitted, notifiedAt, history, nObs, nAdv, breachRun,
                   recoveryRun, nonBreachSinceEntered, siblings>>

\* A handler that writes the webhook_configs, metrics or aws_configs table
\* and answers with success.
Answer(newWebhooks, newMetrics, newAwsConfig) ==
    /\ webhooks' = newWebhooks
    /\ metrics' = newMetrics
    /\ awsConfig' = newAwsConfig
    /\ response' = "success"
    /\ UNCHANGED <<alert, clock, lastSweepAt, procs, emitted, notifiedAt,
                   history, nObs, nAdv, breachRun, recoveryRun,
                   nonBreachSinceEntered, siblings>>

\* The handler of the route, for a request with a valid body.
Handler(route) ==
    CASE route = "POST /api/metrics" ->
            /\ AllIdle
            /\ \E value \in SampleValues, timestamp \in BodyTimestamps :
                  PostMetrics(1, value, timestamp, MaxAccessObservations)
      [] route = "DELETE /api/metrics/:name" ->
            Answer(webhooks, NULL, awsConfig)
      [] route = "POST /api/webhooks" ->
            \E w \in WebhookIds : Answer(webhooks \cup {w}, metrics, awsConfig)
      [] route = "DELETE /api/webhooks/:id" ->
            \E w \in WebhookIds : Answer(webhooks \ {w}, metrics, awsConfig)
      [] route = "POST /api/aws/config" ->
            Answer(webhooks, metrics, TRUE)
      [] route = "DELETE /api/aws/config" ->
            Answer(webhooks, metrics, FALSE)
      [] route = "GET /api/metrics" ->
            Answer(webhooks, metrics, awsConfig)

\* A request with a known key: the middlewares of the route, then its handler.
Request(auth, route) ==
    IF Passes(route, auth) THEN Handler(route) ELSE Forbidden

AccessRequest == \E auth \in Auths, route \in Routes : Request(auth, route)

NextAccess == AccessRequest \/ SampleStep

SpecAccess == Init /\ [][NextAccess]_vars

(***************************************************************************)
(* Runs that apply checkAlertCondition to numbers on both sides of the     *)
(* threshold and equal to it, for every operator the function knows and    *)
(* for two texts it does not know (the condition column is a STRING and    *)
(* the function is defined for every text).                                *)
(***************************************************************************)
EvaluatorOperators == Conditions \cup {"=", "~"}
EvaluatorThresholds == {Num(80), Num(0 - 5)}
EvaluatorValues == {Num(79), Num(80), Num(81), Num(0 - 5)}

InitEvaluator ==
    /\ alert \in { [NewAlert(e, x, FALSE) EXCEPT !.condition = c, !.threshold = t] :
                     e \in {1, 2}, x \in {1, 2}, c \in EvaluatorOperators,
                     t \in EvaluatorThresholds }
    /\ InitRuntime
    /\ siblings = <<>>

EvaluatorPostMetrics ==
    /\ AllIdle
    /\ \E value \in EvaluatorValues, timestamp \in BodyTimestamps :
          PostMetrics(1, value, timestamp, MaxEvaluatorObservations)

NextEvaluator == EvaluatorPostMetrics \/ SampleStep \/ EnableWebhook \/ DisableWebhook

SpecEvaluator == InitEvaluator /\ [][NextEvaluator]_vars

(***************************************************************************)
(* Runs with two alerts of the same metric and settings that are not       *)
(* alerting and differ in consecutiveRecoveries alone: the alerts table as *)
(* non-breaching samples left it when the first alert had been created     *)
(* before the second (the samples and the webhook deleted since).  Every   *)
(* observation is evaluated for the first and then for the second.         *)
(***************************************************************************)
\* consecutiveRecoveries of the first and of the second alert.
TwinRecoveries == {<<2, 1>>, <<3, 1>>, <<1, 2>>}

\* The row of an alert that is not alerting after k non-breaching samples,
\* the last of them at the start of the run.
AfterRecoveries(a, k) ==
    [a EXCEPT !.consecutiveRecoveries = k, !.lastDataTimestamp = StartClock]

InitTwins ==
    /\ \E e \in Thresholds, x \in Thresholds, m \in BOOLEAN, k \in TwinRecoveries :
          /\ alert = AfterRecoveries(NewAlert(e, x, m), k[1])
          /\ siblings = <<AfterRecoveries(NewAlert(e, x, m), k[2])>>
    /\ InitRuntime

TwinPostMetrics ==
    /\ AllIdle
    /\ \E value \in SampleValues, timestamp \in BodyTimestamps :
          PostMetrics(1, value, timestamp, MaxTwinObservations)

TwinSweepTick == AllIdle /\ SweepTick(1, MaxTwinObservations)

NextTwins ==
    \/ TwinPostMetrics
    \/ TwinSweepTick
    \/ Step
    \/ \E p \in Procs : EvaluateSibling(p)
    \/ Environment

SpecTwins == InitTwins /\ [][NextTwins]_vars

(***************************************************************************)
(* Runs whose samples carry the client's timestamp: none, one before the   *)
(* start of the run and one after it.                                      *)
(***************************************************************************)
\* Request body "timestamp" (milliseconds); 0 stands for an absent field.
ClientTimestamps == {0, (StartClock - 100) * MsPerSecond, (StartClock + 100) * MsPerSecond}

OrderedPostMetrics ==
    /\ AllIdle
    /\ \E value \in SampleValues, timestamp \in ClientTimestamps :
          PostMetrics(1, value, timestamp, MaxOrderObservations)

NextOrder == OrderedPostMetrics \/ SampleStep \/ EnableWebhook \/ DisableWebhook

SpecOrder == Init /\ [][NextOrder]_vars

(***************************************************************************)
(* Runs in which the samples arrive at the start and then none: time       *)
(* passes one period of the sweep timer at a time, and setInterval runs    *)
(* checkForMissingData once in every period.  The timer and the steps of   *)
(* an evaluation are weakly fair: a tick that is due is run, an await      *)
(* returns.                                                                *)
(***************************************************************************)
\* Samples are posted before the first period has passed.
LivePostMetrics ==
    /\ AllIdle
    /\ nAdv = 0
    /\ \E value \in SampleValues, timestamp \in BodyTimestamps :
          PostMetrics(1, value, timestamp, MaxLiveSamples)

LiveSweepTick == AllIdle /\ SweepTick(1, MaxLiveObservations)

\* The next period of the timer begins once the tick of this one has run.
PeriodPasses ==
    /\ AllIdle
    /\ lastSweepAt = clock
    /\ AdvanceClockBy({SweepPeriodSeconds}, MaxLivePeriods)

NextLive ==
    \/ LivePostMetrics
    \/ LiveSweepTick
    \/ Step
    \/ PeriodPasses
    \/ EnableWebhook
    \/ DisableWebhook

SpecLive ==
    /\ InitSweep
    /\ [][NextLive]_vars
    /\ WF_vars(LiveSweepTick)
    /\ WF_vars(Step)
    /\ WF_vars(PeriodPasses)

(***************************************************************************)
(* Properties.                                                             *)
(***************************************************************************)
\* The step that ends the evaluation of an observation by process p.
PersistStep(p) == procs[p].pc = "persist" /\ procs'[p].pc = "idle"

\* The step in which process p decides and builds its payloads.
DecideStep(p) == procs[p].pc \in {"touch", "sweepwh"} /\ procs'[p].pc # procs[p].pc

Last(seq) == seq[Len(seq)]

RepeatIntervalSeconds(a) == a.webhookFrequencyMinutes * SecondsPerMinute

\* C1: on the sample path, a breach observation of an alert that is not
\* alerting which brings consecutiveBreaches to enterThreshold or more builds
\* exactly one 'entered' payload, sets isAlerting, resets
\* consecutiveRecoveries and sets lastTriggered to the sample timestamp; one
\* that leaves the count below enterThreshold builds no payload and leaves
\* isAlerting false.
C1_EnterOnThreshold ==
    [][\A p \in Procs :
        (PersistStep(p) /\ procs[p].path = "sample" /\ procs[p].isBreaching
                        /\ ~procs[p].snap.isAlerting)
        => IF alert'.consecutiveBreaches >= alert.enterThreshold
           THEN /\ procs[p].reqs = <<"entered">>
                /\ emitted # <<>> /\ Last(emitted) = "entered"
                /\ alert'.isAlerting
                /\ alert'.consecutiveRecoveries = 0
                /\ alert'.lastTriggered = procs[p].ts
           ELSE /\ procs[p].reqs = <<>>
                /\ ~alert'.isAlerting]_vars

\* The demo scenario: three breaching samples with enterThreshold 3.
C1_Witness ==
    /\ AllIdle /\ clock = StartClock
    /\ alert.enterThreshold = 3 /\ alert.consecutiveBreaches = 3
    /\ alert.isAlerting /\ alert.lastTriggered = StartClock
    /\ emitted = <<"entered">>

\* C2: on the sample path, a non-breach observation of an alerting alert
\* which brings consecutiveRecoveries to exitThreshold or more builds exactly
\* one 'recovered' payload, clears isAlerting and leaves lastTriggered as it
\* was; one that leaves the count below exitThreshold builds no payload and
\* leaves isAlerting true.
C2_ExitOnThreshold ==
    [][\A p \in Procs :
        (PersistStep(p) /\ procs[p].path = "sample" /\ ~procs[p].isBreaching
                        /\ procs[p].snap.isAlerting)
        => IF alert'.consecutiveRecoveries >= alert.exitThreshold
           THEN /\ procs[p].reqs = <<"recovered">>
                /\ emitted # <<>> /\ Last(emitted) = "recovered"
                /\ ~alert'.isAlerting
                /\ alert'.lastTriggered = alert.lastTriggered
                /\ alert'.lastTriggered = procs[p].snap.lastTriggered
           ELSE /\ procs[p].reqs = <<>>
                /\ alert'.isAlerting]_vars

\* The demo scenario continued: three recovering samples with exitThreshold 3.
C2_Witness ==
    /\ AllIdle
    /\ alert.exitThreshold = 3 /\ alert.consecutiveRecoveries = 3
    /\ ~alert.isAlerting /\ alert.lastTriggered = StartClock
    /\ emitted = <<"entered", "recovered">>

C6_SampleRepeatAfterInterval ==
    [][\A p \in Procs :
        (DecideStep(p) /\ procs[p].path = "sample" /\ procs[p].isBreaching
            /\ procs[p].snap.isAlerting
            /\ procs[p].ts - OrZero(procs[p].snap.lastTriggered)
                  >= RepeatIntervalSeconds(procs[p].snap))
        => /\ procs'[p].reqs = <<"active">>
           /\ "lastTriggered" \in DOMAIN procs'[p].updates
           /\ procs'[p].updates.lastTriggered = procs[p].ts]_vars

\* C7: on the sample path a breach observation of an alerting alert with
\* consecutiveRecoveries > 0 that leaves consecutiveBreaches below
\* enterThreshold leaves isAlerting true and consecutiveRecoveries unchanged.
C7_ContestedRecovery ==
    [][\A p \in Procs :
        (PersistStep(p) /\ procs[p].path = "sample" /\ procs[p].isBreaching
            /\ procs[p].snap.isAlerting
            /\ procs[p].snap.consecutiveRecoveries > 0
            /\ alert'.consecutiveBreaches < alert.enterThreshold)
        => /\ alert'.isAlerting
           /\ alert'.consecutiveRecoveries = procs[p].snap.consecutiveRecoveries
           /\ alert'.consecutiveBreaches = procs[p].snap.consecutiveBreaches + 1
           /\ procs[p].reqs \in {<<>>, <<"active">>}]_vars

\* enter = exit = 3 after breach x3, non-breach, non-breach, breach.
C7_Witness ==
    /\ AllIdle /\ nObs = 6
    /\ alert.enterThreshold = 3 /\ alert.exitThreshold = 3
    /\ alert.isAlerting
    /\ alert.consecutiveRecoveries = 2 /\ alert.consecutiveBreaches = 1
    /\ breachRun = 1 /\ nonBreachSinceEntered = 2

\* C8: on the sample path a breach observation of an alerting alert with
\* consecutiveRecoveries > 0 that brings consecutiveBreaches to
\* enterThreshold or more resets consecutiveRecoveries to 0, keeps isAlerting
\* true and builds no 'entered' payload (at most an 'active' one).
C8_FullRebreach ==
    [][\A p \in Procs :
        (PersistStep(p) /\ procs[p].path = "sample" /\ procs[p].isBreaching
            /\ procs[p].snap.isAlerting
            /\ procs[p].snap.consecutiveRecoveries > 0
            /\ alert'.consecutiveBreaches >= alert.enterThreshold)
        => /\ alert'.consecutiveRecoveries = 0
           /\ alert'.isAlerting
           /\ procs[p].reqs \in {<<>>, <<"active">>}]_vars

\* An alerting alert whose recovery was undone by enterThreshold = 2 breaches.
C8_Witness ==
    /\ AllIdle /\ clock = StartClock
    /\ alert.enterThreshold = 2 /\ alert.isAlerting
    /\ alert.consecutiveRecoveries = 0 /\ alert.consecutiveBreaches = 2
    /\ nonBreachSinceEntered = 1 /\ breachRun = 2
    /\ emitted = <<"entered">>

\* The payload states follow (entered active* recovered)*, possibly ending in
\* an unfinished entered active*.
WellShaped(seq) ==
    \A i \in 1..Len(seq) :
        IF seq[i] = "entered"
        THEN i = 1 \/ seq[i - 1] = "recovered"
        ELSE i > 1 /\ seq[i - 1] \in {"entered", "active"}

\* An 'entered' payload was built and no 'recovered' one since.
EpisodeOpen(seq) == seq # <<>> /\ Last(seq) # "recovered"

\* C9: the stored isAlerting flag agrees with the payloads built so far:
\* it is true exactly when an 'entered' was built with no 'recovered' since,
\* and the payload states have the shape (entered active* recovered)*
\* followed by an optional entered active*.  Stated for the states in which
\* no evaluation is in flight.
C9_FlagAgreesWithHistory ==
    AllIdle => /\ WellShaped(emitted)
               /\ alert.isAlerting <=> EpisodeOpen(emitted)

IsTransition(state) == state # "active"

\* C10: under any interleaving of evaluations of the same alert no transition
\* is duplicated: between two 'recovered' payloads at most one 'entered' is
\* built, and between two 'entered' at most one 'recovered'.
C10_NoDuplicateTransition ==
    LET t == SelectSeq(emitted, IsTransition)
    IN  \A i \in 1..(Len(t) - 1) : t[i] # t[i + 1]

\* C11: evaluations of the same alert do not lose updates: when k breach
\* observations and no non-breach one have been evaluated, possibly
\* concurrently, and all evaluations have finished, the stored
\* consecutiveBreaches is k.
C11_NoLostUpdate ==
    (AllIdle /\ nObs > 0 /\ nObs = breachRun) => alert.consecutiveBreaches = nObs

\* C12: no webhook call for a transition is made while the store still
\* holds the state from before the transition: when callWebhook is called,
\* the updates of the observation are already in the alerts table.
C12_PersistThenNotify ==
    [][\A p \in Procs :
        (procs[p].pc = "dispatch" /\ procs'[p] # procs[p])
        => ApplyUpdates(alert, procs[p].updates) = alert]_vars

\* The step in which the final Alert.update of process p rejects.
RejectedUpdate(p) ==
    procs[p].pc = "persist" /\ procs'[p].pc = "idle" /\ alert' = alert

\* C13: when the Alert.update that stores the result of an observation
\* rejects, no payload of that observation has been sent to a webhook.
C13_RejectedUpdateIsSilent ==
    [][\A p \in Procs : RejectedUpdate(p) => procs[p].reqs = <<>>]_vars

\* C14: a fault in the evaluation of one alert does not keep the other
\* alerts of the metric from being evaluated for the sample: an evaluation
\* of a sample ends only after the loop body of the last alert, which has
\* written the sample's timestamp to its row.
C14_SiblingsEvaluated ==
    [][\A p \in Procs :
        (procs[p].path = "sample" /\ procs[p].pc # "idle"
            /\ procs'[p].pc = "idle" /\ siblings # <<>>)
        => /\ procs[p].pc = "sibling"
           /\ siblings'[1].lastDataTimestamp = procs[p].ts]_vars

\* The step of POST /api/metrics: a sample is stored and handed to
\* checkAndTriggerAlerts (a sweep tick is the other step that starts an
\* observation, and it sets lastSweepAt).
SampleHandedOver == nObs' = nObs + 1 /\ lastSweepAt' = lastSweepAt

\* C15: every sample handed to checkAndTriggerAlerts is evaluated for the
\* enabled alert of its metric, whatever the number of enabled webhooks of
\* the app: the loop body for the alert is entered, which writes
\* lastDataTimestamp and the counters.
C15_EvaluatedWithoutWebhooks ==
    [][SampleHandedOver
        => \E p \in Procs : procs[p].pc = "idle" /\ procs'[p].pc = "touch"]_vars

\* The step of a setInterval tick of the sweep.
SweepTickStep == lastSweepAt # clock /\ lastSweepAt' = clock /\ clock' = clock

\* The step in which a tick starts a synthetic breach for the alert.
SyntheticBreachStarts ==
    \E p \in Procs : procs[p].pc = "idle" /\ procs'[p].pc = "sweepwh"

C17_OneBreachPerTick ==
    [][\A p \in Procs :
        (PersistStep(p) /\ procs[p].path = "sweep")
        => /\ alert'.consecutiveBreaches = alert.consecutiveBreaches + 1
           /\ alert'.consecutiveBreaches = procs[p].snap.consecutiveBreaches + 1
           /\ Len(procs[p].reqs) <= 1]_vars

\* expectedIntervalSeconds 30, a tick 70 seconds after the only sample (a
\* non-breaching one): one synthetic breach.
C17_Witness ==
    /\ AllIdle /\ nObs = 2
    /\ alert.expectedIntervalSeconds = 30
    /\ alert.lastDataTimestamp # NULL /\ clock - alert.lastDataTimestamp = 70
    /\ lastSweepAt = clock
    /\ breachRun = 1 /\ alert.consecutiveBreaches = 1

\* C18: the synthetic breach of the sweep gives the same column updates and
\* the same payload as a breach observation with the same timestamp would
\* give on the sample path, from every state of the alert.
C18_SweepMatchesSamplePath ==
    [][\A p \in Procs :
        (procs[p].pc = "sweepwh" /\ procs'[p].pc # "sweepwh")
        => LET d == BreachDecision(procs[p].snap, procs[p].ts)
           IN  /\ procs'[p].updates = d.updates
               /\ procs'[p].reqs = d.reqs]_vars

\* The step in which a sample evaluation writes lastDataTimestamp.
SampleTouchStep == \E p \in Procs : procs[p].pc = "touch" /\ procs'[p].pc # "touch"

\* C19: no step of the sweep changes lastDataTimestamp, and once the gap
\* condition holds it keeps holding until a sample evaluation writes
\* lastDataTimestamp.
C19_SweepKeepsLastData ==
    [][/\ SweepTickStep => alert' = alert
       /\ \A p \in Procs :
            (procs[p].path = "sweep" /\ procs'[p] # procs[p])
            => alert'.lastDataTimestamp = alert.lastDataTimestamp
       /\ (alert.treatMissingAsBreach /\ MissingDataGap(alert, clock)
              /\ ~SampleTouchStep)
          => MissingDataGap(alert', clock')]_vars

\* Two ticks in a row gave a synthetic breach after one non-breaching sample
\* at the start; lastDataTimestamp is still that of the sample.
C19_Witness ==
    /\ AllIdle /\ nObs = 3
    /\ breachRun = 2 /\ alert.consecutiveBreaches = 2
    /\ alert.lastDataTimestamp = StartClock
    /\ clock = StartClock + 90 /\ lastSweepAt = clock
    /\ MissingDataGap(alert, clock)

\* C20: at most one execution of checkForMissingData is in progress at any
\* time.
C20_SweepDoesNotOverlap ==
    Cardinality({p \in Procs : procs[p].path = "sweep"}) <= 1

\* C21: a fault while the sweep processes one alert does not keep the
\* remaining opted-in alerts of the tick from being examined: a tick ends
\* only after the loop body of the next alert that is gapped at the tick
\* time, which has added its synthetic breach.
C21_SweepFaultIsolation ==
    [][\A p \in Procs :
        (procs[p].path = "sweep" /\ procs[p].pc # "idle"
            /\ procs'[p].pc = "idle"
            /\ siblings # <<>> /\ SweepExamines(siblings[1], procs[p].ts))
        => /\ procs[p].pc = "sibling"
           /\ siblings'[1].consecutiveBreaches
                 = siblings[1].consecutiveBreaches + 1]_vars

\* The step in which process p returns from a call of callWebhook.
CallWebhookStep(p) == procs[p].pc = "dispatch" /\ procs'[p] # procs[p]

\* C22: every call of callWebhook adds exactly one row to
\* webhook_call_history, for the webhook called and the state of the payload,
\* whose success column is true exactly when the delivery got a 2xx response;
\* no other step adds, changes or removes a row.
C22_OneAuditRecordPerCall ==
    [][/\ \A p \in Procs :
            CallWebhookStep(p)
            => /\ Len(procs'[p].called) = Len(procs[p].called) + 1
               /\ history'.rows = history.rows + 1
               /\ history'.last.webhookId = Last(procs'[p].called).webhookId
               /\ history'.last.state = procs[p].reqs[1]
               /\ history'.last.success
                     <=> Last(procs'[p].called).outcome = "2xx"
       /\ (\A p \in Procs : ~CallWebhookStep(p)) => history' = history]_vars

\* A delivery answered with a non-2xx status, recorded as a failure.
C22_Witness ==
    \E p \in Procs :
        /\ procs[p].pc = "persist"
        /\ procs[p].called = <<[webhookId |-> 1, outcome |-> "non2xx"]>>
        /\ history = [rows |-> 1, last |-> [webhookId |-> 1, state |-> "entered",
                                            success |-> FALSE]]

\* The decision of the observation process p evaluates, from the row it read.
DecisionOf(me) ==
    IF me.path = "sample" THEN SampleDecision(me.snap, me.isBreaching, me.ts)
    ELSE SweepDecision(me.snap, me.ts)

\* C23: the columns stored for an observation do not depend on the outcomes
\* of its deliveries: a call of callWebhook, whatever its outcome, leaves the
\* alert row and the updates to write as they are and is followed by the
\* next call or by the final Alert.update, and that update writes the
\* updates decided from the row read and the observation alone.
C23_StateIndependentOfDelivery ==
    [][\A p \in Procs :
        /\ CallWebhookStep(p)
           => /\ procs'[p].pc \in {"dispatch", "persist"}
              /\ procs'[p].updates = procs[p].updates
              /\ alert' = alert
        /\ PersistStep(p)
           => /\ procs[p].updates = DecisionOf(procs[p]).updates
              /\ alert' = ApplyUpdates(alert, DecisionOf(procs[p]).updates)]_vars

\* The alert became alerting although both deliveries of 'entered' failed,
\* one with a non-2xx response and one without a response.
C23_Witness ==
    /\ AllIdle /\ alert.isAlerting /\ alert.lastTriggered = StartClock
    /\ emitted = <<"entered">>
    /\ history = [rows |-> 2, last |-> [webhookId |-> 2, state |-> "entered",
                                        success |-> FALSE]]
    /\ nObs = alert.enterThreshold

\* Webhook ids of the deliveries made.
CalledIds(called) == {called[i].webhookId : i \in 1..Len(called)}

C25_FireAndForget ==
    [][/\ SampleHandedOver => metrics' = clock /\ response' = "success"
       /\ \A p \in Procs :
            /\ (procs[p].pc = "idle" /\ procs'[p].pc # "idle")
               => /\ SampleHandedOver
                  /\ procs'[p].pc = "touch"
                  /\ metrics' = procs'[p].ts
            /\ (procs[p].pc # "idle" /\ procs'[p] # procs[p])
               => response' = response /\ metrics' = metrics]_vars

\* The sample that would have entered alerting was answered with success;
\* its evaluation built the payload and then failed before any row was
\* written.
C25_Witness ==
    /\ AllIdle /\ response = "success" /\ metrics = StartClock
    /\ emitted = <<"entered">> /\ ~alert.isAlerting
    /\ history.rows = 0 /\ nObs = alert.enterThreshold

\* What the evaluation of a non-breach observation by process p stores and
\* builds: consecutiveBreaches 0, consecutiveRecoveries one more, and
\* 'recovered' exactly when an alerting alert reaches exitThreshold.
ProcessedAsNonBreach(p) ==
    /\ ~procs[p].isBreaching
    /\ alert'.consecutiveBreaches = 0
    /\ alert'.consecutiveRecoveries = procs[p].snap.consecutiveRecoveries + 1
    /\ IF procs[p].snap.isAlerting
          /\ alert'.consecutiveRecoveries >= alert.exitThreshold
       THEN procs[p].reqs = <<"recovered">> /\ ~alert'.isAlerting
       ELSE /\ procs[p].reqs = <<>>
            /\ alert'.isAlerting = procs[p].snap.isAlerting

\* C26 as claimed: a sample whose value or whose alert's threshold is not a
\* number is evaluated as not breaching and processed like a non-breach
\* observation.
C26_FailOpenOnNonNumeric ==
    [][\A p \in Procs :
        (PersistStep(p) /\ procs[p].path = "sample"
            /\ (~procs[p].value.isNum \/ ~procs[p].snap.threshold.isNum))
        => ProcessedAsNonBreach(p)]_vars

\* C26 as amended: a sample whose value or whose alert's threshold does not
\* start with a number is evaluated as not breaching and processed like a
\* non-breach observation.
C26_FailOpenOnNaN ==
    [][\A p \in Procs :
        (PersistStep(p) /\ procs[p].path = "sample"
            /\ (~procs[p].value.lead \/ ~procs[p].snap.threshold.lead))
        => ProcessedAsNonBreach(p)]_vars

\* A sample with a value that is not a number ends the alerting state of an
\* alert with exitThreshold 1 and a numeric threshold.
C26_Witness ==
    \E p \in Procs :
        /\ procs[p].pc = "persist" /\ procs[p].path = "sample"
        /\ procs[p].value = NotNumeric /\ procs[p].snap.threshold = Num(80)
        /\ procs[p].snap.isAlerting /\ procs[p].reqs = <<"recovered">>

\* C29: every alert in the alerts table has one of the six operators, a
\* numeric threshold, enterThreshold and exitThreshold of at least 1, a
\* repeat interval of at least 60 seconds and, with treatMissingAsBreach,
\* an expectedIntervalSeconds: POST /api/alerts stores no other alert.
C29_StoredAlertsAreValid ==
    /\ alert.condition \in {">", "<", ">=", "<=", "==", "!="}
    /\ alert.threshold.isNum
    /\ alert.enterThreshold >= 1 /\ alert.exitThreshold >= 1
    /\ RepeatIntervalSeconds(alert) >= 60
    /\ alert.treatMissingAsBreach => alert.expectedIntervalSeconds # NULL

\* The row is outside the reach of a sample of (appId, metric).
Foreign(a, appId, metric) == a.appId # appId \/ a.metric # metric \/ ~a.enabled

C28_DisplayState ==
    LET s == DisplayState(alert)
        recovering == /\ alert.isAlerting
                      /\ 0 < alert.consecutiveRecoveries
                      /\ alert.consecutiveRecoveries < alert.exitThreshold
    IN  /\ s \in {"normal", "breaching", "alerting", "recovering"}
        /\ s = "breaching" <=> /\ ~alert.isAlerting
                               /\ 0 < alert.consecutiveBreaches
                               /\ alert.consecutiveBreaches < alert.enterThreshold
        /\ s = "recovering" <=> recovering
        /\ s = "alerting" <=> (alert.isAlerting /\ ~recovering)
        /\ s = "normal" <=> (~alert.isAlerting /\ alert.consecutiveBreaches = 0)

\* An alerting alert with exitThreshold 3 after one non-breach: recovering.
C28_Witness ==
    /\ AllIdle /\ alert.isAlerting
    /\ alert.exitThreshold = 3 /\ alert.consecutiveRecoveries = 1
    /\ DisplayState(alert) = "recovering"

\* The step in which the cleanup timer fires.
CleanupStep == clock' # clock /\ CleanupDue(clock')

\* C30: a run of the cleanup deletes no sample whose age (the time of the
\* run minus the timestamp stored by POST /api/metrics) is less than
\* RETENTION_DAYS days, and deletes every older sample; stated for the
\* newest sample of the table.
C30_CleanupKeepsRecentSamples ==
    [][/\ (metrics # NULL /\ metrics' = NULL)
          => clock' - metrics >= RetentionDays * SecondsPerDay
       /\ (CleanupStep /\ metrics # NULL
              /\ clock' - metrics > RetentionDays * SecondsPerDay)
          => metrics' = NULL]_vars

\* The rows of every table.
StoredData == <<alert, siblings, webhooks, metrics, awsConfig, history>>

\* C31: a request with a key of role 'r' to a route that changes stored data
\* is answered 403 and leaves every table as it is.
C31_ReadOnlyNeverMutates ==
    [][\A route \in MutatingRoutes :
        Request(KeyAuth("r"), route)
        => response' = "forbidden" /\ StoredData' = StoredData]_vars

\* The sign of v - t.
Sign(v, t) == IF v > t THEN 1 ELSE IF v < t THEN 0 - 1 ELSE 0

\* The operators whose comparison is true of two numbers with that sign.
TrueOperators(sign) ==
    CASE sign = 1 -> {">", ">=", "!="}
      [] sign = 0 -> {">=", "<=", "=="}
      [] OTHER -> {"<", "<=", "!="}

\* C32: for numbers v and t, checkAlertCondition(v, op, t) is the comparison
\* v op t for the six operators and false for every other operator, in
\* whatever state of the alert and of the server it is called.
C32_ConditionEvaluator ==
    \A p \in Procs :
        procs[p].path = "sample"
        => (procs[p].isBreaching
            <=> procs[p].snap.condition
                  \in TrueOperators(Sign(procs[p].value.v,
                                         procs[p].snap.threshold.v)))

\* 80 >= 80 breaches, evaluated for an alert that is already alerting.
C32_Witness ==
    \E p \in Procs :
        /\ procs[p].pc = "touch" /\ procs[p].isBreaching
        /\ procs[p].value = Num(80) /\ procs[p].snap.threshold = Num(80)
        /\ procs[p].snap.condition = ">=" /\ procs[p].snap.isAlerting

\* C33: in every state of a run with serially evaluated observations and
\* sweep ticks, an alert that is not alerting has consecutiveBreaches below
\* enterThreshold.
C33_NormalBelowEnterThreshold ==
    ~alert.isAlerting => alert.consecutiveBreaches < alert.enterThreshold

\* An alert with enterThreshold 2 that entered, recovered and then saw one
\* more breach.
C33_Witness ==
    /\ AllIdle /\ ~alert.isAlerting
    /\ emitted = <<"entered", "recovered">>
    /\ alert.enterThreshold = 2 /\ alert.consecutiveBreaches = 1
    /\ breachRun = 1

\* C35: in every state of a run with serially evaluated observations and
\* sweep ticks, an alerting alert has consecutiveRecoveries below
\* exitThreshold, and neither counter is negative.
C35_ActiveBelowExitThreshold ==
    /\ alert.isAlerting => alert.consecutiveRecoveries < alert.exitThreshold
    /\ alert.consecutiveBreaches >= 0
    /\ alert.consecutiveRecoveries >= 0

\* An alerting alert with exitThreshold 2 one non-breach away from leaving,
\* after a non-breach and a breach that kept the recovery counter.
C35_Witness ==
    /\ AllIdle /\ alert.isAlerting
    /\ alert.exitThreshold = 2 /\ alert.consecutiveRecoveries = 1
    /\ alert.enterThreshold = 2 /\ alert.consecutiveBreaches = 1
    /\ emitted = <<"entered">>
    /\ nonBreachSinceEntered = 1 /\ breachRun = 1

\* Two rows that differ in consecutiveRecoveries at most.
SameButRecoveries(a, b) ==
    [a EXCEPT !.consecutiveRecoveries = 0] = [b EXCEPT !.consecutiveRecoveries = 0]

\* C34: of two alerts that are not alerting and differ in
\* consecutiveRecoveries alone, every observation evaluated for both builds
\* the same payloads, and after it the two rows have the same isAlerting and
\* consecutiveBreaches (they still differ in consecutiveRecoveries at most).
C34_RecoveriesCosmeticInNormal ==
    [][/\ AllIdle' => /\ SameButRecoveries(alert', siblings'[1])
                      /\ alert'.isAlerting = siblings'[1].isAlerting
                      /\ alert'.consecutiveBreaches = siblings'[1].consecutiveBreaches
       /\ \A p \in Procs :
            DecideStep(p)
            => procs'[p].reqs
                  = DecisionOf([procs[p] EXCEPT !.snap = siblings[1]]).reqs]_vars

\* exitThreshold 3 and enterThreshold 1: the first alert had 3 recoveries
\* and the second 1 when a breach made both alerting; a non-breach later
\* both are recovering with one recovery.
C34_Witness ==
    /\ AllIdle /\ nObs = 2 /\ emitted = <<"entered">>
    /\ alert.exitThreshold = 3
    /\ alert.isAlerting /\ siblings[1].isAlerting
    /\ alert.consecutiveRecoveries = 1 /\ siblings[1].consecutiveRecoveries = 1

\* C36: when a breach observation and a non-breach observation of the same
\* alert are the first two of a run and have both been evaluated, in any
\* interleaving of their steps, the stored row is not alerting with
\* consecutiveRecoveries at or above exitThreshold, nor not alerting with
\* consecutiveBreaches at or above enterThreshold.
C36_NoTornState ==
    (AllIdle /\ nObs = 2 /\ breachRun + recoveryRun = 1)
    => /\ alert.isAlerting => alert.consecutiveRecoveries < alert.exitThreshold
       /\ ~alert.isAlerting => alert.consecutiveBreaches < alert.enterThreshold

\* C37: every non-breach observation stores consecutiveBreaches 0, whether
\* the alert is alerting or not; and a breach observation (real or
\* synthetic) of an alerting alert with consecutiveRecoveries > 0 and
\* enterThreshold >= 2 that directly follows a non-breach observation leaves
\* consecutiveBreaches below enterThreshold, consecutiveRecoveries as it was
\* and the alert alerting.
C37_IsolatedBreachKeepsRecovery ==
    [][\A p \in Procs :
        PersistStep(p)
        => /\ ~procs[p].isBreaching => alert'.consecutiveBreaches = 0
           /\ (procs[p].isBreaching /\ breachRun = 1
                  /\ procs[p].snap.isAlerting
                  /\ procs[p].snap.consecutiveRecoveries > 0
                  /\ alert.enterThreshold >= 2)
              => /\ alert'.consecutiveBreaches < alert.enterThreshold
                 /\ alert'.consecutiveRecoveries
                       = procs[p].snap.consecutiveRecoveries
                 /\ alert'.isAlerting]_vars

\* C38: the evaluation of a sample never lowers lastDataTimestamp, and
\* after its write lastDataTimestamp is the latest timestamp of the samples
\* stored for the metric, also when the sample carries an older timestamp
\* than an earlier one.
C38_LastSampleMonotonic ==
    [][\A p \in Procs :
        (procs[p].pc = "touch" /\ procs'[p].pc # "touch")
        => /\ alert.lastDataTimestamp # NULL
              => alert'.lastDataTimestamp >= alert.lastDataTimestamp
           /\ alert'.lastDataTimestamp = metrics]_vars

\* C39: an alert with treatMissingAsBreach that is not alerting, for whose
\* metric a sample has been stored and then no more arrive, becomes alerting
\* while the sweep keeps ticking.
C39_GapEventuallyAlerts ==
    (metrics # NULL /\ nAdv > 0 /\ ~alert.isAlerting) ~> alert.isAlerting

\* C40: a call of callWebhook during which the history store rejects is
\* followed by the call for the next webhook or, after the last one, by the
\* final Alert.update of the observation: every step that ends a call
\* leaves the evaluation in its dispatch loop or at its final update.
C40_AuditFailureTolerated ==
    [][\A p \in Procs :
        CallWebhookStep(p) => procs'[p].pc \in {"dispatch", "persist"}]_vars

====
